---------------------------- MODULE Spec2Model ----------------------------
(***************************************************************************)
(* Ticket inventory, booking and payment settlement of eventflow-uganda.   *)
(*                                                                         *)
(* The model follows backend/tickets/models.py, backend/bookings/models.py,*)
(* backend/bookings/serializers.py, backend/bookings/views.py and          *)
(* backend/payments/models.py.  A database row is a record; a model method *)
(* is an operator from the loaded instance to the result and the instance  *)
(* it saves; a handler is an action that loads the rows, runs the method   *)
(* and stores what the method saves.  objects.create(...) inserts a row    *)
(* and save(update_fields=...) writes the instance's fields: constraints   *)
(* the database itself would enforce (NOT NULL, unique_together) are not   *)
(* part of the model, but for the unique reference of a Settlement, which  *)
(* decides what a second settle_to_organizer on the same payment does.     *)
(*                                                                         *)
(* Money is an integer number of currency units; time is an integer,       *)
(* one unit being the 15 minutes a pending booking is held.                *)
(***************************************************************************)
EXTENDS Integers, Sequences, FiniteSets, TLC

VARIABLES
    now,            \* timezone.now()
    ticket_types,   \* table ticket_types: id -> row
    bookings,       \* table bookings: sequence of rows, id = index
    payments,       \* table payments: booking id -> row (OneToOne)
    tickets,        \* table tickets: sequence of rows, id = index
    refunds,        \* table refunds: sequence of rows, id = index
    lastCall,       \* the call that ran last: [op, id]
    lastResult,     \* what it returned: "True", "False", "None", "raise"
    requests,       \* concurrent requests: each one's position and loaded instances
    reservedOk,     \* ticket type -> sum of the quantities of successful reserve_tickets calls
    status_history, \* table booking_status_history: sequence of rows
    discount_codes, \* table discount_codes: discount code id -> row
    waitlist_entries, \* table waitlist_entries: sequence of rows
    checkInOk,      \* ticket -> number of check_in calls that returned True
    appliedOk,      \* discount code -> number of apply_discount_code calls that returned True
    settlements,    \* table settlements: sequence of rows
    ticket_transfers \* table ticket_transfers: sequence of rows

vars == <<now, ticket_types, bookings, payments, tickets, refunds,
          lastCall, lastResult, requests, reservedOk, status_history,
          discount_codes, waitlist_entries, checkInOk, appliedOk, settlements, ticket_transfers>>

-----------------------------------------------------------------------------
(* Bounds *)

MaxTime == 1
MaxQuantity == 2
MaxBookings == 2
MaxTickets == 3
MaxRefunds == 2
MaxCalls == 2
NumTicketTypes == 2
NumRequests == 2
NumDiscountCodes == 1
UsageLimit == 1
MaxWaitlist == 2

TicketTypeIds == 1..NumTicketTypes
RequestIds == 1..NumRequests
Quantities == 1..MaxQuantity
DiscountCodeIds == 1..NumDiscountCodes

NoTime == -1    \* a null DateTimeField
NoAmount == -1  \* a null DecimalField or PositiveIntegerField

\* Python truth of a nullable number: None and 0 are false
Truthy(x) == x # NoAmount /\ x # 0

-----------------------------------------------------------------------------
(* Helpers *)

Max(a, b) == IF a >= b THEN a ELSE b

RECURSIVE SumSeq(_)
SumSeq(s) == IF s = <<>> THEN 0 ELSE Head(s) + SumSeq(Tail(s))

Indices(s) == 1..Len(s)

-----------------------------------------------------------------------------
(* TicketType (tickets/models.py) *)

\* A ticket type as TicketType's field defaults leave it, with the given stock
\* and price; a null early_bird_price is 0.
NewTicketType(q, p) ==
    [quantity |-> q, sold_count |-> 0, reserved_count |-> 0,
     min_purchase |-> 1, max_purchase |-> 10,
     price |-> p, service_fee |-> 0, tax_percentage |-> 0,
     early_bird_until |-> NoTime, early_bird_price |-> 0,
     sale_starts |-> 0, sale_ends |-> MaxTime + 1,
     is_refundable |-> TRUE, is_transferable |-> TRUE, refund_deadline |-> NoTime,
     sale_status |-> "not_started", is_active |-> TRUE]

available_count(tt) == Max(0, tt.quantity - tt.sold_count - tt.reserved_count)

is_available(tt, t) ==
    /\ tt.is_active
    /\ tt.sale_status = "on_sale"
    /\ tt.sale_starts <= t /\ t <= tt.sale_ends
    /\ available_count(tt) > 0

current_price(tt, t) ==
    IF tt.early_bird_until # NoTime /\ tt.early_bird_price # 0 /\ t <= tt.early_bird_until
    THEN tt.early_bird_price
    ELSE tt.price

can_purchase(tt, quantity, t) ==
    /\ is_available(tt, t)
    /\ tt.min_purchase <= quantity /\ quantity <= tt.max_purchase
    /\ quantity <= available_count(tt)

\* reserve_tickets with the availability check left out
reserve_tickets_unchecked(tt, quantity) ==
    [ok |-> TRUE, tt |-> [tt EXCEPT !.reserved_count = @ + quantity]]

reserve_tickets(tt, quantity) ==
    IF quantity <= available_count(tt)
    THEN [ok |-> TRUE, tt |-> [tt EXCEPT !.reserved_count = @ + quantity]]
    ELSE [ok |-> FALSE, tt |-> tt]

release_reservation(tt, quantity) ==
    [tt EXCEPT !.reserved_count = Max(0, @ - quantity)]

sell_tickets(tt, quantity) ==
    IF quantity <= available_count(tt) + tt.reserved_count
    THEN LET r == IF quantity <= tt.reserved_count
                  THEN tt.reserved_count - quantity
                  ELSE 0
             moved == [tt EXCEPT !.reserved_count = r, !.sold_count = @ + quantity]
         IN [ok |-> TRUE,
             tt |-> IF available_count(moved) = 0
                    THEN [moved EXCEPT !.sale_status = "sold_out"]
                    ELSE moved]
    ELSE [ok |-> FALSE, tt |-> tt]

update_sale_status(tt, t) ==
    [tt EXCEPT !.sale_status =
        IF ~tt.is_active THEN "ended"
        ELSE IF available_count(tt) = 0 THEN "sold_out"
        ELSE IF t < tt.sale_starts THEN "not_started"
        ELSE IF t > tt.sale_ends THEN "ended"
        ELSE "on_sale"]

-----------------------------------------------------------------------------
(* Booking and BookingItem (bookings/models.py) *)

\* BookingItem.calculate_totals taking the price from the ticket type as it is now
item_calculate_totals_repriced(item) ==
    LET unit_price == current_price(ticket_types[item.ticket_type], now)
    IN [item EXCEPT !.unit_price = unit_price,
                    !.total_price = unit_price * item.quantity,
                    !.service_fee_total = item.service_fee_per_ticket * item.quantity,
                    !.tax_total = item.tax_per_ticket * item.quantity]

\* BookingItem.calculate_totals, run by BookingItem.save when total_price is not set
item_calculate_totals(item) ==
    [item EXCEPT !.total_price = item.unit_price * item.quantity,
                 !.service_fee_total = item.service_fee_per_ticket * item.quantity,
                 !.tax_total = item.tax_per_ticket * item.quantity]

\* BookingItem.save of a stored item: with total_price set the row is written
\* as it is; with total_price 0 calculate_totals runs first, and its own save
\* comes back here, without end when the total it computed is 0 again.
item_save(item) ==
    IF item.total_price # 0 THEN [result |-> "None", item |-> item]
    ELSE IF item.unit_price * item.quantity # 0
    THEN [result |-> "None", item |-> item_calculate_totals(item)]
    ELSE [result |-> "RecursionError", item |-> item]

grand_total_per_ticket(item) ==
    item.unit_price + item.service_fee_per_ticket + item.tax_per_ticket

\* confirm_booking with the status check left out
confirm_booking_unguarded(b, t) ==
    [ok |-> TRUE, booking |-> [b EXCEPT !.status = "confirmed", !.confirmed_at = t]]

confirm_booking(b, t) ==
    IF b.status = "pending"
    THEN [ok |-> TRUE, booking |-> [b EXCEPT !.status = "confirmed", !.confirmed_at = t]]
    ELSE [ok |-> FALSE, booking |-> b]

\* The booking's own fields; the action cancels the tickets when ok.
cancel_booking(b, t) ==
    IF b.status \in {"pending", "confirmed", "paid"}
    THEN [ok |-> TRUE, booking |-> [b EXCEPT !.status = "cancelled", !.cancelled_at = t]]
    ELSE [ok |-> FALSE, booking |-> b]

mark_as_paid(b) ==
    IF b.payment_status \in {"pending", "processing"}
    THEN [ok |-> TRUE, booking |-> [b EXCEPT !.payment_status = "paid", !.status = "paid"]]
    ELSE [ok |-> FALSE, booking |-> b]

\* The booking's own fields; the action releases the items' reservations when ok.
expire_booking(b) ==
    IF b.status = "pending" /\ b.payment_status = "pending"
    THEN [ok |-> TRUE, booking |-> [b EXCEPT !.status = "expired"]]
    ELSE [ok |-> FALSE, booking |-> b]

\* The ticket types after release_reservation(item.quantity) for items[1..n], in order.
RECURSIVE ReleaseItems(_, _, _)
ReleaseItems(tts, items, n) ==
    IF n = 0 THEN tts
    ELSE LET before == ReleaseItems(tts, items, n - 1)
             item == items[n]
         IN [before EXCEPT ![item.ticket_type] = release_reservation(@, item.quantity)]

-----------------------------------------------------------------------------
(* Payment (payments/models.py) *)

\* mark_completed with the status check left out
mark_completed_unguarded(p, t, gateway_transaction_id, gateway_response) ==
    [ok |-> TRUE,
     payment |-> [p EXCEPT
        !.status = "completed",
        !.payment_date = t,
        !.gateway_transaction_id =
            IF gateway_transaction_id # "" THEN gateway_transaction_id ELSE @,
        !.gateway_response = IF gateway_response # "" THEN gateway_response ELSE @,
        !.gateway_callback_received = IF gateway_response # "" THEN TRUE ELSE @]]

\* The payment's own fields; the action calls booking.mark_as_paid() when ok.
mark_completed(p, t, gateway_transaction_id, gateway_response) ==
    IF p.status \in {"pending", "processing"}
    THEN [ok |-> TRUE,
          payment |-> [p EXCEPT
            !.status = "completed",
            !.payment_date = t,
            !.gateway_transaction_id =
                IF gateway_transaction_id # "" THEN gateway_transaction_id ELSE @,
            !.gateway_response = IF gateway_response # "" THEN gateway_response ELSE @,
            !.gateway_callback_received = IF gateway_response # "" THEN TRUE ELSE @]]
    ELSE [ok |-> FALSE, payment |-> p]

NewPayment(amount) ==
    [status |-> "pending", amount |-> amount, payment_date |-> NoTime,
     gateway_transaction_id |-> "", gateway_response |-> "",
     gateway_callback_received |-> FALSE,
     retry_count |-> 0, max_retries |-> 3, is_settled |-> FALSE]

-----------------------------------------------------------------------------
(* Booking creation (bookings/serializers.py) *)

\* The requests a client can send: one item per ticket type, at most one item of a type.
RequestItems == [ticket_type : TicketTypeIds, quantity : Quantities]

ItemLists ==
    {<<a>> : a \in RequestItems}
    \cup {<<p[1], p[2]>> : p \in {pp \in RequestItems \X RequestItems :
                                    pp[1].ticket_type < pp[2].ticket_type}}

\* BookingCreateSerializer.validate on the ticket type instances the request loaded
validate(inst, items, t) ==
    /\ items # <<>>
    /\ \A i \in Indices(items) : can_purchase(inst[i], items[i].quantity, t)

\* The BookingItem row create() inserts for one requested item.
NewBookingItem(tt, item, t) ==
    LET unit_price == current_price(tt, t)
    IN item_calculate_totals(
         [ticket_type |-> item.ticket_type, quantity |-> item.quantity,
          unit_price |-> unit_price,
          service_fee_per_ticket |-> tt.service_fee,
          tax_per_ticket |-> (unit_price * tt.tax_percentage) \div 100,
          total_price |-> 0, service_fee_total |-> 0, tax_total |-> 0])

BookingHoldTime == 1    \* timezone.timedelta(minutes=15)

\* BookingCreateSerializer.create on the loaded instances: ok, and when ok the
\* booking row and the instances as saved; not ok is the ValidationError that
\* rolls the transaction back. error is the RecursionError of
\* BookingItem.objects.create, whose save of a row with total 0 never ends.
create(inst, items, t) ==
    LET res == [i \in Indices(items) |-> reserve_tickets(inst[i], items[i].quantity)]
        rows == [i \in Indices(items) |-> NewBookingItem(inst[i], items[i], t)]
        subtotal == SumSeq([i \in Indices(items) |-> rows[i].total_price])
        total_service_fee == SumSeq([i \in Indices(items) |-> rows[i].service_fee_total])
        total_tax == SumSeq([i \in Indices(items) |-> rows[i].tax_total])
    IN [ok |-> \A i \in Indices(items) : res[i].ok,
        error |-> \E i \in Indices(items) : item_save(rows[i]).result = "RecursionError",
        saved |-> [i \in Indices(items) |-> res[i].tt],
        booking |-> [user |-> 1, status |-> "pending", payment_status |-> "pending",
                     items |-> rows,
                     discount_code |-> 0, discount_code_used |-> "",
                     subtotal |-> subtotal,
                     service_fee_total |-> total_service_fee,
                     tax_total |-> total_tax,
                     discount_amount |-> 0,
                     total_amount |-> subtotal + total_service_fee + total_tax,
                     booking_expires_at |-> t + BookingHoldTime,
                     confirmed_at |-> NoTime, cancelled_at |-> NoTime]]

\* The table after save(update_fields=['reserved_count']) of each item's instance.
SaveReserved(tts, items, saved) ==
    [t \in TicketTypeIds |->
        IF \E i \in Indices(items) : items[i].ticket_type = t
        THEN LET i == CHOOSE j \in Indices(items) : items[j].ticket_type = t
             IN [tts[t] EXCEPT !.reserved_count = saved[i].reserved_count]
        ELSE tts[t]]

-----------------------------------------------------------------------------
(* Ticket issuance (BookingItem.create_tickets) *)

NewTicket(b, item) ==
    [booking |-> b, ticket_type |-> item.ticket_type,
     current_holder |-> bookings[b].user, transfer_count |-> 0,
     status |-> "active", is_checked_in |-> FALSE, check_in_time |-> NoTime,
     expires_at |-> NoTime,
     purchase_price |-> item.unit_price,
     total_paid |-> grand_total_per_ticket(item)]

\* The rows create_tickets inserts for an item of booking b: one per unit of quantity.
create_tickets(b, item) ==
    [k \in 1..item.quantity |-> NewTicket(b, item)]

TicketsOf(b) == {k \in Indices(tickets) : tickets[k].booking = b}
\* The tickets of item i of booking b: a ticket names its booking and its ticket
\* type, and the items of a booking have different ticket types.
TicketsOfItem(b, i) ==
    {k \in TicketsOf(b) : tickets[k].ticket_type = bookings[b].items[i].ticket_type}

-----------------------------------------------------------------------------
(* Check-in and transfer (Ticket.check_in, Ticket.transfer_to) *)

Ticket_is_valid(tk, t) ==
    /\ tk.status = "active"
    /\ ~tk.is_checked_in
    /\ (tk.expires_at = NoTime \/ t <= tk.expires_at)

\* Ticket.check_in without its validity test
check_in_unchecked(tk, t) ==
    [ok |-> TRUE,
     ticket |-> [tk EXCEPT !.is_checked_in = TRUE, !.check_in_time = t, !.status = "used"]]

\* Ticket.check_in on instance tk: the result and the instance it saves
check_in(tk, t) ==
    IF Ticket_is_valid(tk, t) /\ ~tk.is_checked_in
    THEN [ok |-> TRUE,
          ticket |-> [tk EXCEPT !.is_checked_in = TRUE, !.check_in_time = t,
                                !.status = "used"]]
    ELSE [ok |-> FALSE, ticket |-> tk]

\* The row after save(update_fields=['is_checked_in', 'check_in_time',
\* 'check_in_location', 'checked_in_by', 'status']) of instance inst
SaveCheckIn(row, inst) ==
    [row EXCEPT !.is_checked_in = inst.is_checked_in,
                !.check_in_time = inst.check_in_time,
                !.status = inst.status]

-----------------------------------------------------------------------------
(* Refunds (Payment.process_refund, Ticket.refund, Refund) *)

EventStartDate == 100   \* event.start_date of the one event, in units of time
Hours24 == 96           \* timezone.timedelta(hours=24)

\* Ticket.is_transferable
Ticket_is_transferable(tk, tt, t) ==
    /\ tk.status = "active"
    /\ tt.is_transferable
    /\ ~tk.is_checked_in
    /\ EventStartDate > t

\* Ticket.transfer_to on instance tk of ticket k: the result, the instance it
\* saves and the TicketTransfer row it creates
transfer_to(tk, k, tt, new_holder, t) ==
    IF Ticket_is_transferable(tk, tt, t)
    THEN [ok |-> TRUE,
          ticket |-> [tk EXCEPT !.current_holder = new_holder,
                                !.transfer_count = @ + 1],
          transfer |-> [ticket |-> k, from_user |-> tk.current_holder,
                        to_user |-> new_holder]]
    ELSE [ok |-> FALSE, ticket |-> tk]

\* Ticket.is_refundable without the ticket type's flag
Ticket_is_refundable_unflagged(tk, tt, t) ==
    IF tk.is_checked_in THEN FALSE
    ELSE IF tt.refund_deadline # NoTime THEN t <= tt.refund_deadline
    ELSE EventStartDate - t > Hours24

\* Ticket.is_refundable
Ticket_is_refundable(tk, tt, t) ==
    IF ~tt.is_refundable \/ tk.is_checked_in THEN FALSE
    ELSE IF tt.refund_deadline # NoTime THEN t <= tt.refund_deadline
    ELSE EventStartDate - t > Hours24

\* A Refund row as Refund's field defaults leave it; ticket 0 is no ticket.
NewRefund(payment, ticket, refund_amount) ==
    [original_payment |-> payment, ticket |-> ticket, refund_amount |-> refund_amount,
     status |-> "pending", approved_at |-> NoTime, completed_at |-> NoTime]

\* refund_amount or default: a missing (or zero) argument takes the default
OrDefault(refund_amount, default) == IF refund_amount # 0 THEN refund_amount ELSE default

\* Payment.process_refund on payment p of booking b: the Refund row it creates
process_refund(p, b, refund_amount) ==
    IF p.status = "completed"
    THEN [ok |-> TRUE, refund |-> NewRefund(b, 0, OrDefault(refund_amount, p.amount))]
    ELSE [ok |-> FALSE, refund |-> NewRefund(b, 0, 0)]

\* Refund.approve
approve(rf, t) ==
    IF rf.approved_at = NoTime /\ rf.status = "pending"
    THEN [ok |-> TRUE, refund |-> [rf EXCEPT !.approved_at = t, !.status = "processing"]]
    ELSE [ok |-> FALSE, refund |-> rf]

\* Refund.complete_refund: the refund's own fields, and the status it gives the payment
complete_refund(rf, p, t) ==
    IF rf.status = "processing"
    THEN [ok |-> TRUE,
          refund |-> [rf EXCEPT !.status = "completed", !.completed_at = t],
          payment |-> [p EXCEPT !.status = IF p.amount <= rf.refund_amount
                                           THEN "refunded"
                                           ELSE "partially_refunded"]]
    ELSE [ok |-> FALSE, refund |-> rf, payment |-> p]

-----------------------------------------------------------------------------
(* Discount codes (DiscountCode, Booking.calculate_totals,                  *)
(* Booking.apply_discount_code)                                             *)

\* A DiscountCode row as the field defaults leave it, valid from the start on;
\* code c is stored under the name "CODE".
NewDiscountCode(discount_type, discount_value, max_discount_amount) ==
    [code |-> "CODE", is_active |-> TRUE,
     discount_type |-> discount_type, discount_value |-> discount_value,
     max_discount_amount |-> max_discount_amount, min_order_amount |-> 0,
     usage_type |-> "unlimited", usage_limit |-> NoAmount,
     usage_limit_per_user |-> 1, times_used |-> 0,
     valid_from |-> 0, valid_until |-> MaxTime + 1,
     first_time_buyers_only |-> FALSE]

is_usage_limit_reached(dc) ==
    IF dc.usage_type = "unlimited" THEN FALSE
    ELSE Truthy(dc.usage_limit) /\ dc.times_used >= dc.usage_limit

DiscountCode_is_valid(dc, t) ==
    /\ dc.is_active
    /\ dc.valid_from <= t /\ t <= dc.valid_until
    /\ ~is_usage_limit_reached(dc)

\* DiscountCode.is_valid_for_user on code c: the user's bookings are read from
\* the table; no user groups are targeted.
is_valid_for_user(dc, c, user, t) ==
    IF ~DiscountCode_is_valid(dc, t) THEN FALSE
    ELSE IF dc.first_time_buyers_only
            /\ \E b \in Indices(bookings) :
                  bookings[b].user = user /\ bookings[b].status = "paid"
    THEN FALSE
    ELSE Cardinality({b \in Indices(bookings) :
                        bookings[b].discount_code = c /\ bookings[b].user = user})
            < dc.usage_limit_per_user

\* DiscountCode.is_valid_for_booking: the code is for the one event and names
\* no applicable ticket types.
is_valid_for_booking(dc, c, b, t) ==
    IF ~is_valid_for_user(dc, c, b.user, t) THEN FALSE
    ELSE b.subtotal >= dc.min_order_amount

Min(a, b) == IF a <= b THEN a ELSE b

calculate_discount(dc, order_amount) ==
    IF dc.discount_type = "percentage"
    THEN LET discount == (order_amount * dc.discount_value) \div 100
         IN IF Truthy(dc.max_discount_amount)
            THEN Min(discount, dc.max_discount_amount)
            ELSE discount
    ELSE IF dc.discount_type = "fixed_amount"
    THEN Min(dc.discount_value, order_amount)
    ELSE 0

\* Booking.calculate_totals: the instance after the call
booking_calculate_totals(b) ==
    LET subtotal == SumSeq([i \in Indices(b.items) |-> b.items[i].total_price])
        service_fee_total == SumSeq([i \in Indices(b.items) |-> b.items[i].service_fee_total])
        tax_total == SumSeq([i \in Indices(b.items) |-> b.items[i].tax_total])
        total_before_fees == Max(0, subtotal - b.discount_amount)
    IN [b EXCEPT !.subtotal = subtotal,
                 !.service_fee_total = service_fee_total,
                 !.tax_total = tax_total,
                 !.total_amount = total_before_fees + service_fee_total + tax_total]

\* The row after save(update_fields=['subtotal', 'service_fee_total',
\* 'tax_total', 'total_amount']) of instance inst
SaveTotals(row, inst) ==
    [row EXCEPT !.subtotal = inst.subtotal,
                !.service_fee_total = inst.service_fee_total,
                !.tax_total = inst.tax_total,
                !.total_amount = inst.total_amount]

\* Booking.apply_discount_code on instance b with the instance dc of code c
\* (c = 0 is no code): the two instances after the call
apply_discount_code(b, dc, c, t) ==
    IF c # 0 /\ is_valid_for_booking(dc, c, b, t)
    THEN [ok |-> TRUE,
          booking |-> booking_calculate_totals(
                        [b EXCEPT !.discount_code = c,
                                  !.discount_code_used = dc.code,
                                  !.discount_amount = calculate_discount(dc, b.subtotal)]),
          code |-> [dc EXCEPT !.times_used = @ + 1]]
    ELSE [ok |-> FALSE, booking |-> b, code |-> dc]

-----------------------------------------------------------------------------
(* Waitlist (WaitlistEntry) *)

NotificationWindow == 8   \* timezone.timedelta(hours=2)

\* A WaitlistEntry row as the field defaults leave it
NewWaitlistEntry(ticket_type, user, quantity_requested, position) ==
    [ticket_type |-> ticket_type, user |-> user,
     quantity_requested |-> quantity_requested,
     is_active |-> TRUE, position |-> position,
     notified_at |-> NoTime, expires_at |-> NoTime]

\* WaitlistEntry.notify_availability
notify_availability(e, t) ==
    IF e.is_active /\ e.notified_at = NoTime
    THEN [ok |-> TRUE,
          entry |-> [e EXCEPT !.notified_at = t, !.expires_at = t + NotificationWindow]]
    ELSE [ok |-> FALSE, entry |-> e]

\* The entries notify_waitlist selects: active, not notified, asking for no more
\* than available_quantity; the first five by position
Selected(entries, ticket_type, available_quantity) ==
    LET match == {k \in Indices(entries) :
                    /\ entries[k].ticket_type = ticket_type
                    /\ entries[k].is_active
                    /\ entries[k].notified_at = NoTime
                    /\ entries[k].quantity_requested <= available_quantity}
    IN {k \in match :
          Cardinality({j \in match : entries[j].position < entries[k].position}) < 5}

\* WaitlistEntry.notify_waitlist: the table after the call
notify_waitlist(entries, ticket_type, available_quantity, t) ==
    [k \in Indices(entries) |->
        IF k \in Selected(entries, ticket_type, available_quantity)
        THEN notify_availability(entries[k], t).entry
        ELSE entries[k]]

-----------------------------------------------------------------------------
(* State after construction *)

TicketPrice == 10

NoCall == [op |-> "none", id |-> 0]

Idle == [pc |-> "idle", calls |-> 0]

\* Every table but ticket_types and discount_codes
InitTables ==
    /\ now = 0
    /\ bookings = <<>>
    /\ payments = <<>>
    /\ tickets = <<>>
    /\ refunds = <<>>
    /\ lastCall = NoCall
    /\ lastResult = "None"
    /\ requests = [r \in RequestIds |-> Idle]
    /\ reservedOk = [t \in TicketTypeIds |-> 0]
    /\ status_history = <<>>
    /\ waitlist_entries = <<>>
    /\ checkInOk = [k \in 1..MaxTickets |-> 0]
    /\ appliedOk = [c \in DiscountCodeIds |-> 0]
    /\ settlements = <<>>
    /\ ticket_transfers = <<>>

\* A percentage code of 50% without a cap
HalfPrice == NewDiscountCode("percentage", 50, NoAmount)

InitRest ==
    /\ InitTables
    /\ discount_codes = [c \in DiscountCodeIds |-> HalfPrice]

Init ==
    /\ ticket_types = [t \in TicketTypeIds |-> NewTicketType(MaxQuantity, TicketPrice)]
    /\ InitRest

BookingIds == Indices(bookings)

Called(op, id, result) ==
    /\ lastCall' = [op |-> op, id |-> id]
    /\ lastResult' = result

Bool(b) == IF b THEN "True" ELSE "False"

\* BookingStatusHistory.objects.create(booking=..., previous_status=..., new_status=...)
NewStatusHistory(b, previous_status, new_status) ==
    [booking |-> b, previous_status |-> previous_status, new_status |-> new_status]

-----------------------------------------------------------------------------
(* Handlers, each run alone on freshly loaded rows *)

Tick ==
    /\ now < MaxTime
    /\ now' = now + 1
    /\ Called("tick", 0, "None")
    /\ UNCHANGED <<ticket_types, bookings, payments, tickets, refunds, requests, reservedOk, status_history,
                   discount_codes, waitlist_entries, checkInOk, appliedOk, settlements, ticket_transfers>>

UpdateSaleStatus(t) ==
    /\ ticket_types' = [ticket_types EXCEPT ![t] = update_sale_status(@, now)]
    /\ Called("update_sale_status", t, "None")
    /\ UNCHANGED <<now, bookings, payments, tickets, refunds, requests, reservedOk, status_history,
                   discount_codes, waitlist_entries, checkInOk, appliedOk, settlements, ticket_transfers>>

\* BookingCreateView: validate, create in one transaction, then the history row
Checkout(items, limit) ==
    /\ Len(bookings) < limit
    /\ LET inst == [i \in Indices(items) |-> ticket_types[items[i].ticket_type]]
           c == create(inst, items, now)
       IN IF validate(inst, items, now) /\ c.ok /\ c.error
          THEN /\ UNCHANGED <<bookings, ticket_types, status_history>>
               /\ Called("create", 0, "RecursionError")
          ELSE IF validate(inst, items, now) /\ c.ok
          THEN /\ bookings' = Append(bookings, c.booking)
               /\ ticket_types' = SaveReserved(ticket_types, items, c.saved)
               /\ status_history' = Append(status_history,
                        NewStatusHistory(Len(bookings) + 1, "", "pending"))
               /\ Called("create", Len(bookings) + 1, "True")
          ELSE /\ UNCHANGED <<bookings, ticket_types, status_history,
                   discount_codes, waitlist_entries, checkInOk, appliedOk, settlements, ticket_transfers>>
               /\ Called("create", 0, "ValidationError")
    /\ UNCHANGED <<now, payments, tickets, refunds, requests, reservedOk,
                   discount_codes, waitlist_entries, checkInOk, appliedOk, settlements, ticket_transfers>>

\* A Payment row for the booking, as the field defaults leave it
CreatePayment(b) ==
    /\ b \notin DOMAIN payments
    /\ payments' = payments @@ (b :> NewPayment(bookings[b].total_amount))
    /\ Called("create_payment", b, "True")
    /\ UNCHANGED <<now, ticket_types, bookings, tickets, refunds, requests, reservedOk, status_history,
                   discount_codes, waitlist_entries, checkInOk, appliedOk, settlements, ticket_transfers>>

\* The confirm_booking view
ConfirmBooking(b) ==
    /\ LET r == confirm_booking(bookings[b], now)
       IN /\ bookings' = [bookings EXCEPT ![b] = r.booking]
          /\ status_history' = IF r.ok
                               THEN Append(status_history,
                                        NewStatusHistory(b, "pending", "confirmed"))
                               ELSE status_history
          /\ Called("confirm_booking", b, Bool(r.ok))
    /\ UNCHANGED <<now, ticket_types, payments, tickets, refunds, requests, reservedOk,
                   discount_codes, waitlist_entries, checkInOk, appliedOk, settlements, ticket_transfers>>

\* BookingCancelView.post: previous_status is read after cancel_booking has run
CancelBooking(b) ==
    /\ LET r == cancel_booking(bookings[b], now)
       IN /\ bookings' = [bookings EXCEPT ![b] = r.booking]
          /\ tickets' = IF r.ok
                        THEN [k \in Indices(tickets) |->
                                IF tickets[k].booking = b
                                THEN [tickets[k] EXCEPT !.status = "cancelled"]
                                ELSE tickets[k]]
                        ELSE tickets
          /\ status_history' = IF r.ok
                               THEN Append(status_history,
                                        NewStatusHistory(b, r.booking.status, "cancelled"))
                               ELSE status_history
          /\ Called("cancel_booking", b, Bool(r.ok))
    /\ UNCHANGED <<now, ticket_types, payments, refunds, requests, reservedOk,
                   discount_codes, waitlist_entries, checkInOk, appliedOk, settlements, ticket_transfers>>

MarkAsPaid(b) ==
    /\ LET r == mark_as_paid(bookings[b])
       IN /\ bookings' = [bookings EXCEPT ![b] = r.booking]
          /\ Called("mark_as_paid", b, Bool(r.ok))
    /\ UNCHANGED <<now, ticket_types, payments, tickets, refunds, requests, reservedOk, status_history,
                   discount_codes, waitlist_entries, checkInOk, appliedOk, settlements, ticket_transfers>>

ExpireBooking(b) ==
    /\ LET r == expire_booking(bookings[b])
       IN /\ bookings' = [bookings EXCEPT ![b] = r.booking]
          /\ ticket_types' = IF r.ok
                             THEN ReleaseItems(ticket_types, bookings[b].items,
                                               Len(bookings[b].items))
                             ELSE ticket_types
          /\ Called("expire_booking", b, Bool(r.ok))
    /\ UNCHANGED <<now, payments, tickets, refunds, requests, reservedOk, status_history,
                   discount_codes, waitlist_entries, checkInOk, appliedOk, settlements, ticket_transfers>>

\* The arguments of a gateway callback: none given (the defaults), or both.
GatewayCalls == {<<"", "">>, <<"G1", "R1">>}

MarkCompleted(b, gateway_transaction_id, gateway_response) ==
    /\ b \in DOMAIN payments
    /\ LET r == mark_completed(payments[b], now, gateway_transaction_id, gateway_response)
       IN /\ payments' = [payments EXCEPT ![b] = r.payment]
          /\ bookings' = IF r.ok
                         THEN [bookings EXCEPT ![b] = mark_as_paid(@).booking]
                         ELSE bookings
          /\ Called("mark_completed", b, Bool(r.ok))
    /\ UNCHANGED <<now, ticket_types, tickets, refunds, requests, reservedOk, status_history,
                   discount_codes, waitlist_entries, checkInOk, appliedOk, settlements, ticket_transfers>>

CreateTickets(b, i) ==
    /\ Len(tickets) + bookings[b].items[i].quantity <= MaxTickets
    /\ tickets' = tickets \o create_tickets(b, bookings[b].items[i])
    /\ Called("create_tickets", b, "True")
    /\ UNCHANGED <<now, ticket_types, bookings, payments, refunds, requests, reservedOk, status_history,
                   discount_codes, waitlist_entries, checkInOk, appliedOk, settlements, ticket_transfers>>

\* Bookings competing for the stock of the ticket types
Next ==
    \/ \E t \in TicketTypeIds : UpdateSaleStatus(t)
    \/ \E items \in ItemLists : Checkout(items, MaxBookings)
    \/ \E b \in BookingIds :
        \/ CreatePayment(b)
        \/ ConfirmBooking(b)
        \/ CancelBooking(b)
        \/ ExpireBooking(b)
        \/ MarkCompleted(b, "", "")

Spec == Init /\ [][Next]_vars

\* One booking from checkout to its tickets, through every status operation
NextIssue ==
    \/ \E t \in TicketTypeIds : UpdateSaleStatus(t)
    \/ \E items \in ItemLists : Checkout(items, 1)
    \/ \E b \in BookingIds :
        \/ CreatePayment(b)
        \/ ConfirmBooking(b)
        \/ CancelBooking(b)
        \/ MarkAsPaid(b)
        \/ ExpireBooking(b)
        \/ MarkCompleted(b, "", "")
        \/ \E i \in Indices(bookings[b].items) : CreateTickets(b, i)

SpecIssue == Init /\ [][NextIssue]_vars

\* The payment of one booking, with the clock running and the gateway calling back
NextPay ==
    \/ Tick
    \/ \E t \in TicketTypeIds : UpdateSaleStatus(t)
    \/ \E items \in ItemLists : Checkout(items, 1)
    \/ \E b \in BookingIds :
        \/ CreatePayment(b)
        \/ CancelBooking(b)
        \/ \E g \in GatewayCalls : MarkCompleted(b, g[1], g[2])
        \/ \E i \in Indices(bookings[b].items) : CreateTickets(b, i)

SpecPay == Init /\ [][NextPay]_vars

-----------------------------------------------------------------------------
(* Refunds of one paid booking *)

\* The refund_amount argument: 0 is the argument left out
RefundAmounts == {0, TicketPrice \div 2}

ProcessRefund(b, refund_amount) ==
    /\ b \in DOMAIN payments
    /\ Len(refunds) < MaxRefunds
    /\ LET r == process_refund(payments[b], b, refund_amount)
       IN /\ refunds' = IF r.ok THEN Append(refunds, r.refund) ELSE refunds
          /\ Called("process_refund", b, IF r.ok THEN "Refund" ELSE "None")
    /\ UNCHANGED <<now, ticket_types, bookings, payments, tickets, requests, reservedOk, status_history,
                   discount_codes, waitlist_entries, checkInOk, appliedOk, settlements, ticket_transfers>>

\* Ticket.refund: the status is saved before the booking's payment is looked up
TicketRefund(k, refund_amount) ==
    /\ Len(refunds) < MaxRefunds
    /\ LET tk == tickets[k]
       IN IF Ticket_is_refundable(tk, ticket_types[tk.ticket_type], now)
          THEN /\ tickets' = [tickets EXCEPT ![k].status = "refunded"]
               /\ IF tk.booking \in DOMAIN payments
                  THEN /\ refunds' = Append(refunds,
                              NewRefund(tk.booking, k, OrDefault(refund_amount, tk.total_paid)))
                       /\ Called("refund", k, "True")
                  ELSE /\ UNCHANGED refunds
                       /\ Called("refund", k, "raise")
          ELSE /\ UNCHANGED <<tickets, refunds>>
               /\ Called("refund", k, "False")
    /\ UNCHANGED <<now, ticket_types, bookings, payments, requests, reservedOk, status_history,
                   discount_codes, waitlist_entries, checkInOk, appliedOk, settlements, ticket_transfers>>

ApproveRefund(f) ==
    /\ LET r == approve(refunds[f], now)
       IN /\ refunds' = [refunds EXCEPT ![f] = r.refund]
          /\ Called("approve", f, Bool(r.ok))
    /\ UNCHANGED <<now, ticket_types, bookings, payments, tickets, requests, reservedOk, status_history,
                   discount_codes, waitlist_entries, checkInOk, appliedOk, settlements, ticket_transfers>>

CompleteRefund(f) ==
    /\ LET b == refunds[f].original_payment
           r == complete_refund(refunds[f], payments[b], now)
       IN /\ refunds' = [refunds EXCEPT ![f] = r.refund]
          /\ payments' = [payments EXCEPT ![b] = r.payment]
          /\ Called("complete_refund", f, Bool(r.ok))
    /\ UNCHANGED <<now, ticket_types, bookings, tickets, requests, reservedOk, status_history,
                   discount_codes, waitlist_entries, checkInOk, appliedOk, settlements, ticket_transfers>>

NextRefund ==
    \/ \E t \in TicketTypeIds : UpdateSaleStatus(t)
    \/ \E items \in ItemLists : Checkout(items, 1)
    \/ \E b \in BookingIds :
        \/ CreatePayment(b)
        \/ MarkCompleted(b, "", "")
        \/ \E i \in Indices(bookings[b].items) : CreateTickets(b, i)
        \/ \E a \in RefundAmounts : ProcessRefund(b, a)
    \/ \E k \in Indices(tickets), a \in RefundAmounts : TicketRefund(k, a)
    \/ \E f \in Indices(refunds) :
        \/ ApproveRefund(f)
        \/ CompleteRefund(f)

SpecRefund == Init /\ [][NextRefund]_vars

-----------------------------------------------------------------------------
(* The gate: two scanners check tickets in, each on the instance it loaded, *)
(* while the booking may be cancelled                                       *)

\* The scanner reads the ticket: Ticket.objects.get(...)
LoadTicket(r, k) ==
    /\ requests[r].pc = "idle"
    /\ requests[r].calls < MaxCalls
    /\ requests' = [requests EXCEPT ![r] =
            [pc |-> "scanned", calls |-> @.calls, ticket |-> k, instance |-> tickets[k]]]
    /\ UNCHANGED <<now, ticket_types, bookings, payments, tickets, refunds,
                   lastCall, lastResult, reservedOk, status_history,
                   discount_codes, waitlist_entries, checkInOk, appliedOk, settlements, ticket_transfers>>

\* check_in on the loaded instance
CheckIn(r) ==
    /\ requests[r].pc = "scanned"
    /\ LET k == requests[r].ticket
           res == check_in(requests[r].instance, now)
       IN /\ tickets' = IF res.ok
                        THEN [tickets EXCEPT ![k] = SaveCheckIn(@, res.ticket)]
                        ELSE tickets
          /\ checkInOk' = [checkInOk EXCEPT ![k] = IF res.ok THEN @ + 1 ELSE @]
          /\ Called("check_in", k, Bool(res.ok))
    /\ requests' = [requests EXCEPT ![r] = [pc |-> "idle", calls |-> @.calls + 1]]
    /\ UNCHANGED <<now, ticket_types, bookings, payments, refunds, reservedOk,
                   status_history, discount_codes, waitlist_entries, appliedOk, settlements, ticket_transfers>>

NextGate ==
    \/ \E t \in TicketTypeIds : UpdateSaleStatus(t)
    \/ \E items \in ItemLists : Checkout(items, 1)
    \/ \E b \in BookingIds :
        \/ CancelBooking(b)
        \/ \E i \in Indices(bookings[b].items) : CreateTickets(b, i)
    \/ \E r \in RequestIds :
        \/ \E k \in Indices(tickets) : LoadTicket(r, k)
        \/ CheckIn(r)

SpecGate == Init /\ [][NextGate]_vars


\* transfer_to on the loaded instance: save(update_fields=['current_holder',
\* 'transfer_count', 'last_transfer_date', 'transfer_fee_paid']), then
\* TicketTransfer.objects.create
TransferTo(r, new_holder) ==
    /\ requests[r].pc = "scanned"
    /\ LET k == requests[r].ticket
           res == transfer_to(requests[r].instance, k,
                              ticket_types[tickets[k].ticket_type], new_holder, now)
       IN /\ tickets' = IF res.ok
                        THEN [tickets EXCEPT ![k].current_holder = res.ticket.current_holder,
                                             ![k].transfer_count = res.ticket.transfer_count]
                        ELSE tickets
          /\ ticket_transfers' = IF res.ok THEN Append(ticket_transfers, res.transfer)
                                 ELSE ticket_transfers
          /\ Called("transfer_to", k, Bool(res.ok))
    /\ requests' = [requests EXCEPT ![r] = [pc |-> "idle", calls |-> @.calls + 1]]
    /\ UNCHANGED <<now, ticket_types, bookings, payments, refunds, reservedOk,
                   status_history, discount_codes, waitlist_entries, checkInOk,
                   appliedOk, settlements>>

\* One ticket, handed on by requests that loaded it and checked in at the gate
NextTransfer ==
    \/ \E t \in TicketTypeIds :
        \/ UpdateSaleStatus(t)
        \/ Checkout(<<[ticket_type |-> t, quantity |-> 1]>>, 1)
    \/ \E b \in BookingIds :
        \E i \in Indices(bookings[b].items) :
            TicketsOfItem(b, i) = {} /\ CreateTickets(b, i)
    \/ \E r \in RequestIds :
        \/ \E k \in Indices(tickets) : LoadTicket(r, k)
        \/ CheckIn(r)
        \/ \E new_holder \in 2..3 : TransferTo(r, new_holder)

SpecTransfer == Init /\ [][NextTransfer]_vars

-----------------------------------------------------------------------------
(* Ticket refunds over time, on ticket types that are refundable or not     *)

\* Ticket types as created, all refundable or all not, with a refund deadline
\* at time 0 or with none
InitTicketRefund ==
    /\ \E f \in BOOLEAN, deadline \in {NoTime, 0} :
          ticket_types = [t \in TicketTypeIds |->
              [NewTicketType(MaxQuantity, TicketPrice) EXCEPT !.is_refundable = f,
                                                              !.refund_deadline = deadline]]
    /\ InitRest

\* check_in on the freshly loaded ticket
CheckInTicket(k) ==
    /\ LET res == check_in(tickets[k], now)
       IN /\ tickets' = [tickets EXCEPT ![k] = res.ticket]
          /\ checkInOk' = [checkInOk EXCEPT ![k] = IF res.ok THEN @ + 1 ELSE @]
          /\ Called("check_in", k, Bool(res.ok))
    /\ UNCHANGED <<now, ticket_types, bookings, payments, refunds, requests, reservedOk,
                   status_history, discount_codes, waitlist_entries, appliedOk, settlements, ticket_transfers>>

\* One booking of one ticket, issued once: refund acts on a single ticket
NextTicketRefund ==
    \/ Tick
    \/ \E t \in TicketTypeIds :
        \/ UpdateSaleStatus(t)
        \/ Checkout(<<[ticket_type |-> t, quantity |-> 1]>>, 1)
    \/ \E b \in BookingIds :
        \/ CreatePayment(b)
        \/ CancelBooking(b)
        \/ \E i \in Indices(bookings[b].items) :
            TicketsOfItem(b, i) = {} /\ CreateTickets(b, i)
    \/ \E k \in Indices(tickets) :
        \/ CheckInTicket(k)
        \/ TicketRefund(k, 0)

SpecTicketRefund == InitTicketRefund /\ [][NextTicketRefund]_vars

-----------------------------------------------------------------------------
(* Discount codes applied to bookings: each request works on the booking    *)
(* and the discount code instances it loaded                                *)

\* One code of 50%, limited to UsageLimit uses
InitDiscount ==
    /\ ticket_types = [t \in TicketTypeIds |-> NewTicketType(MaxQuantity, TicketPrice)]
    /\ discount_codes = [c \in DiscountCodeIds |->
            [HalfPrice EXCEPT !.usage_type = "limited", !.usage_limit = UsageLimit]]
    /\ InitTables

\* Booking.calculate_totals on the freshly loaded booking
BookingCalculateTotals(b) ==
    /\ bookings' = [bookings EXCEPT ![b] = SaveTotals(@, booking_calculate_totals(@))]
    /\ Called("calculate_totals", b, "None")
    /\ UNCHANGED <<now, ticket_types, payments, tickets, refunds, requests, reservedOk,
                   status_history, discount_codes, waitlist_entries, checkInOk, appliedOk, settlements, ticket_transfers>>

\* Request r reads its booking (booking r) and discount code c
LoadDiscountCode(r, c) ==
    /\ requests[r].pc = "idle"
    /\ r \in BookingIds
    /\ requests' = [requests EXCEPT ![r] =
            [pc |-> "loaded", calls |-> @.calls, code |-> c,
             booking_instance |-> bookings[r], code_instance |-> discount_codes[c]]]
    /\ UNCHANGED <<now, ticket_types, bookings, payments, tickets, refunds,
                   lastCall, lastResult, reservedOk, status_history,
                   discount_codes, waitlist_entries, checkInOk, appliedOk, settlements, ticket_transfers>>

\* apply_discount_code on the loaded instances: calculate_totals saves the four
\* totals of the booking, then the code's times_used is saved
ApplyDiscountCode(r) ==
    /\ requests[r].pc = "loaded"
    /\ LET c == requests[r].code
           res == apply_discount_code(requests[r].booking_instance,
                                      requests[r].code_instance, c, now)
       IN /\ bookings' = IF res.ok
                         THEN [bookings EXCEPT ![r] = SaveTotals(@, res.booking)]
                         ELSE bookings
          /\ discount_codes' = IF res.ok
                               THEN [discount_codes EXCEPT
                                        ![c].times_used = res.code.times_used]
                               ELSE discount_codes
          /\ appliedOk' = [appliedOk EXCEPT ![c] = IF res.ok THEN @ + 1 ELSE @]
          /\ Called("apply_discount_code", r, Bool(res.ok))
    /\ requests' = [requests EXCEPT ![r] = [pc |-> "applied", calls |-> @.calls + 1]]
    /\ UNCHANGED <<now, ticket_types, payments, tickets, refunds, reservedOk,
                   status_history, waitlist_entries, checkInOk, settlements, ticket_transfers>>

NextDiscount ==
    \/ \E t \in TicketTypeIds : UpdateSaleStatus(t)
    \/ \E items \in ItemLists : Checkout(items, MaxBookings)
    \/ \E b \in BookingIds : BookingCalculateTotals(b)
    \/ \E r \in RequestIds :
        \/ \E c \in DiscountCodeIds : LoadDiscountCode(r, c)
        \/ ApplyDiscountCode(r)

SpecDiscount == InitDiscount /\ [][NextDiscount]_vars


\* The same calls on a code without a total usage limit, one use per user
SpecUserCap == Init /\ [][NextDiscount]_vars

-----------------------------------------------------------------------------
(* DiscountCode.calculate_discount on codes of every type, with and without *)
(* a cap, for a range of order amounts                                      *)

DiscountCodes ==
    {NewDiscountCode(discount_type, discount_value, max_discount_amount) :
        discount_type \in {"percentage", "fixed_amount", "free_shipping"},
        discount_value \in {10, 50, 150},
        max_discount_amount \in {NoAmount, 0, 5000}}

OrderAmounts == {0, 100, 5000, 100000}

InitCalculate ==
    /\ ticket_types = [t \in TicketTypeIds |-> NewTicketType(MaxQuantity, TicketPrice)]
    /\ discount_codes \in [DiscountCodeIds -> DiscountCodes]
    /\ InitTables

CalculateDiscount(c, order_amount) ==
    /\ lastCall' = [op |-> "calculate_discount", id |-> c, order_amount |-> order_amount]
    /\ lastResult' = calculate_discount(discount_codes[c], order_amount)
    /\ UNCHANGED <<now, ticket_types, bookings, payments, tickets, refunds, requests,
                   reservedOk, status_history, discount_codes, waitlist_entries,
                   checkInOk, appliedOk, settlements, ticket_transfers>>

NextCalculate ==
    \E c \in DiscountCodeIds, order_amount \in OrderAmounts :
        CalculateDiscount(c, order_amount)

SpecCalculate == InitCalculate /\ [][NextCalculate]_vars

-----------------------------------------------------------------------------
(* Price changes on a ticket type after a booking item was created          *)

NewPrices == {TicketPrice, 2 * TicketPrice}

\* The organizer edits the ticket type's price
ChangePrice(t, price) ==
    /\ ticket_types' = [ticket_types EXCEPT ![t].price = price]
    /\ Called("change_price", t, "None")
    /\ UNCHANGED <<now, bookings, payments, tickets, refunds, requests, reservedOk,
                   status_history, discount_codes, waitlist_entries, checkInOk, appliedOk, settlements, ticket_transfers>>

\* The organizer sets an early-bird price that applies from now on
ChangeEarlyBird(t, price) ==
    /\ ticket_types' = [ticket_types EXCEPT ![t].early_bird_price = price,
                                            ![t].early_bird_until = MaxTime + 1]
    /\ Called("change_early_bird", t, "None")
    /\ UNCHANGED <<now, bookings, payments, tickets, refunds, requests, reservedOk,
                   status_history, discount_codes, waitlist_entries, checkInOk, appliedOk, settlements, ticket_transfers>>

\* BookingItem.calculate_totals on the freshly loaded item
ItemCalculateTotals(b, i) ==
    /\ bookings' = [bookings EXCEPT ![b].items[i] = item_calculate_totals(@)]
    /\ Called("item_calculate_totals", b, "None")
    /\ UNCHANGED <<now, ticket_types, payments, tickets, refunds, requests, reservedOk,
                   status_history, discount_codes, waitlist_entries, checkInOk, appliedOk, settlements, ticket_transfers>>

\* BookingItem.save on the freshly loaded item
ItemSave(b, i) ==
    /\ LET r == item_save(bookings[b].items[i])
       IN /\ bookings' = [bookings EXCEPT ![b].items[i] = r.item]
          /\ Called("item_save", b, r.result)
    /\ UNCHANGED <<now, ticket_types, payments, tickets, refunds, requests, reservedOk,
                   status_history, discount_codes, waitlist_entries, checkInOk, appliedOk, settlements, ticket_transfers>>

\* The prices that change are those of the ticket types of the booking's items
NextPrice ==
    \/ \E t \in TicketTypeIds : UpdateSaleStatus(t)
    \/ \E items \in ItemLists : Checkout(items, 1)
    \/ \E b \in BookingIds :
        \/ ConfirmBooking(b)
        \/ CancelBooking(b)
        \/ ExpireBooking(b)
        \/ BookingCalculateTotals(b)
        \/ \E i \in Indices(bookings[b].items) :
            \/ \E price \in NewPrices :
                  ChangePrice(bookings[b].items[i].ticket_type, price)
            \/ ChangeEarlyBird(bookings[b].items[i].ticket_type, TicketPrice \div 2)
            \/ ItemCalculateTotals(b, i)
            \/ ItemSave(b, i)

SpecPrice == Init /\ [][NextPrice]_vars

\* Ticket types that are free or priced, with a service fee, a tax and an
\* early-bird price that ends at time 0 or none
InitFee ==
    /\ \E until \in {NoTime, 0} :
          ticket_types \in [TicketTypeIds ->
              {[NewTicketType(MaxQuantity, p) EXCEPT
                    !.service_fee = TicketPrice, !.tax_percentage = 20,
                    !.early_bird_until = until,
                    !.early_bird_price = TicketPrice \div 2] : p \in {0, TicketPrice}}]
    /\ InitRest

\* Checkout of one booking and the saves of its items, as time passes
NextFee ==
    \/ Tick
    \/ \E t \in TicketTypeIds : UpdateSaleStatus(t)
    \/ \E items \in ItemLists : Checkout(items, 1)
    \/ \E b \in BookingIds :
        \E i \in Indices(bookings[b].items) : ItemSave(b, i)

SpecFee == InitFee /\ [][NextFee]_vars

-----------------------------------------------------------------------------
(* The inventory ledger alone: reserve_tickets, release_reservation and     *)
(* sell_tickets called one after the other with any quantity               *)

CallQuantities == 0..(MaxQuantity + 1)

\* A ticket type on sale with counters that respect its quantity
LedgerTicketTypes ==
    {[NewTicketType(q, TicketPrice) EXCEPT !.sold_count = s, !.reserved_count = r,
                                           !.sale_status = "on_sale"] :
        q \in Quantities, s \in 0..MaxQuantity, r \in 0..MaxQuantity}

InitLedger ==
    /\ ticket_types \in [TicketTypeIds ->
            {tt \in LedgerTicketTypes : tt.sold_count + tt.reserved_count <= tt.quantity}]
    /\ InitRest

ReserveTicketsCall(t, quantity) ==
    /\ LET r == reserve_tickets(ticket_types[t], quantity)
       IN /\ ticket_types' = [ticket_types EXCEPT ![t] = r.tt]
          /\ Called("reserve_tickets", t, Bool(r.ok))
    /\ UNCHANGED <<now, bookings, payments, tickets, refunds, requests, reservedOk, status_history,
                   discount_codes, waitlist_entries, checkInOk, appliedOk, settlements, ticket_transfers>>

ReleaseReservationCall(t, quantity) ==
    /\ ticket_types' = [ticket_types EXCEPT ![t] = release_reservation(@, quantity)]
    /\ Called("release_reservation", t, "None")
    /\ UNCHANGED <<now, bookings, payments, tickets, refunds, requests, reservedOk, status_history,
                   discount_codes, waitlist_entries, checkInOk, appliedOk, settlements, ticket_transfers>>

SellTicketsCall(t, quantity) ==
    /\ LET r == sell_tickets(ticket_types[t], quantity)
       IN /\ ticket_types' = [ticket_types EXCEPT ![t] = r.tt]
          /\ Called("sell_tickets", t, Bool(r.ok))
    /\ UNCHANGED <<now, bookings, payments, tickets, refunds, requests, reservedOk, status_history,
                   discount_codes, waitlist_entries, checkInOk, appliedOk, settlements, ticket_transfers>>

NextLedger ==
    \E t \in TicketTypeIds, quantity \in CallQuantities :
        \/ ReserveTicketsCall(t, quantity)
        \/ ReleaseReservationCall(t, quantity)
        \/ SellTicketsCall(t, quantity)

\* Every ticket type starts from the same row; the calls then move each apart
InitSameLedger ==
    /\ InitLedger
    /\ \A t \in TicketTypeIds : ticket_types[t] = ticket_types[1]

SpecLedger == InitSameLedger /\ [][NextLedger]_vars

-----------------------------------------------------------------------------
(* Concurrent reserve_tickets calls: each caller works on the instance it   *)
(* loaded, and save(update_fields=['reserved_count']) writes that           *)
(* instance's reserved_count                                                *)

InitReserve ==
    /\ ticket_types \in [TicketTypeIds ->
            {tt \in LedgerTicketTypes : tt.reserved_count = 0 /\ tt.sold_count <= tt.quantity}]
    /\ InitRest

\* The caller reads the row: TicketType.objects.get(...)
LoadTicketType(r, t, quantity) ==
    /\ requests[r].pc = "idle"
    /\ requests[r].calls < MaxCalls
    /\ requests' = [requests EXCEPT ![r] =
            [pc |-> "loaded", calls |-> @.calls, ticket_type |-> t,
             quantity |-> quantity, instance |-> ticket_types[t]]]
    /\ UNCHANGED <<now, ticket_types, bookings, payments, tickets, refunds,
                   lastCall, lastResult, reservedOk, status_history,
                   discount_codes, waitlist_entries, checkInOk, appliedOk, settlements, ticket_transfers>>

\* reserve_tickets on the loaded instance
ReserveTickets(r) ==
    /\ requests[r].pc = "loaded"
    /\ LET t == requests[r].ticket_type
           res == reserve_tickets(requests[r].instance, requests[r].quantity)
       IN /\ ticket_types' = [ticket_types EXCEPT
                                ![t].reserved_count = res.tt.reserved_count]
          /\ reservedOk' = [reservedOk EXCEPT
                                ![t] = IF res.ok THEN @ + requests[r].quantity ELSE @]
          /\ Called("reserve_tickets", t, Bool(res.ok))
    /\ requests' = [requests EXCEPT ![r] = [pc |-> "idle", calls |-> @.calls + 1]]
    /\ UNCHANGED <<now, bookings, payments, tickets, refunds, status_history,
                   discount_codes, waitlist_entries, checkInOk, appliedOk, settlements, ticket_transfers>>

NextReserve ==
    \E r \in RequestIds :
        \/ \E t \in TicketTypeIds, quantity \in Quantities : LoadTicketType(r, t, quantity)
        \/ ReserveTickets(r)

SpecReserve == InitReserve /\ [][NextReserve]_vars


\* reserve_tickets, release_reservation or sell_tickets on row tt: the row after
ledger_call(op, tt, quantity) ==
    IF op = "reserve_tickets" THEN reserve_tickets(tt, quantity).tt
    ELSE IF op = "release_reservation" THEN release_reservation(tt, quantity)
    ELSE sell_tickets(tt, quantity).tt

\* The call on the loaded instance; each of the three saves its own
\* update_fields, and a refused reserve_tickets or sell_tickets (the instance
\* is as loaded) saves nothing. The request keeps the call it made.
LedgerCall(r, op) ==
    /\ requests[r].pc = "loaded"
    /\ LET t == requests[r].ticket_type
           inst == ledger_call(op, requests[r].instance, requests[r].quantity)
           ok == inst # requests[r].instance
       IN /\ ticket_types' = [ticket_types EXCEPT ![t] =
                IF op = "release_reservation"
                THEN [@ EXCEPT !.reserved_count = inst.reserved_count]
                ELSE IF ~ok THEN @
                ELSE IF op = "sell_tickets"
                THEN [@ EXCEPT !.sold_count = inst.sold_count,
                               !.reserved_count = inst.reserved_count,
                               !.sale_status = inst.sale_status]
                ELSE [@ EXCEPT !.reserved_count = inst.reserved_count]]
          /\ Called(op, t, IF op = "release_reservation" THEN "None" ELSE Bool(ok))
          /\ requests' = [requests EXCEPT ![r] =
                [pc |-> "done", calls |-> @.calls + 1, ticket_type |-> t,
                 quantity |-> @.quantity, op |-> op]]
    /\ UNCHANGED <<now, bookings, payments, tickets, refunds, reservedOk, status_history,
                   discount_codes, waitlist_entries, checkInOk, appliedOk, settlements,
                   ticket_transfers>>

\* A ticket type on sale with one ticket reserved and two available
SerialStart ==
    [NewTicketType(MaxQuantity + 1, TicketPrice) EXCEPT !.reserved_count = 1,
                                                        !.sale_status = "on_sale"]

InitSerial ==
    /\ ticket_types = [t \in TicketTypeIds |-> SerialStart]
    /\ InitRest

\* Each caller loads a ticket type once and makes one call on what it loaded
NextSerial ==
    \E r \in RequestIds :
        \/ \E t \in TicketTypeIds, quantity \in Quantities : LoadTicketType(r, t, quantity)
        \/ \E op \in {"reserve_tickets", "release_reservation", "sell_tickets"} :
              LedgerCall(r, op)

SpecSerial == InitSerial /\ [][NextSerial]_vars

-----------------------------------------------------------------------------
(* Concurrent booking-creation requests: validate runs on the ticket type   *)
(* instances the request loaded, create reserves on those same instances    *)

InitCheckout ==
    /\ ticket_types \in [TicketTypeIds ->
            {tt \in LedgerTicketTypes : tt.reserved_count = 0 /\ tt.sold_count = 0}]
    /\ InitRest

\* serializer.is_valid(): the items' ticket types are loaded and validated
Validate(r, items) ==
    /\ requests[r].pc = "idle"
    /\ LET inst == [i \in Indices(items) |-> ticket_types[items[i].ticket_type]]
       IN requests' = [requests EXCEPT ![r] =
            [pc |-> IF validate(inst, items, now) THEN "validated" ELSE "rejected",
             calls |-> @.calls, items |-> items, instances |-> inst]]
    /\ UNCHANGED <<now, ticket_types, bookings, payments, tickets, refunds,
                   lastCall, lastResult, reservedOk, status_history,
                   discount_codes, waitlist_entries, checkInOk, appliedOk, settlements, ticket_transfers>>

\* serializer.save(): create() in its transaction, then the history row
Create(r) ==
    /\ requests[r].pc = "validated"
    /\ LET items == requests[r].items
           c == create(requests[r].instances, items, now)
       IN IF c.ok
          THEN /\ bookings' = Append(bookings, c.booking)
               /\ ticket_types' = SaveReserved(ticket_types, items, c.saved)
               /\ status_history' = Append(status_history,
                        NewStatusHistory(Len(bookings) + 1, "", "pending"))
               /\ Called("create", Len(bookings) + 1, "True")
               /\ requests' = [requests EXCEPT ![r].pc = "created"]
          ELSE /\ UNCHANGED <<bookings, ticket_types, status_history,
                   discount_codes, waitlist_entries, checkInOk, appliedOk, settlements, ticket_transfers>>
               /\ Called("create", 0, "ValidationError")
               /\ requests' = [requests EXCEPT ![r].pc = "rejected"]
    /\ UNCHANGED <<now, payments, tickets, refunds, reservedOk,
                   discount_codes, waitlist_entries, checkInOk, appliedOk, settlements, ticket_transfers>>

NextCheckout ==
    \E r \in RequestIds :
        \/ \E items \in ItemLists : Validate(r, items)
        \/ Create(r)

SpecCheckout == InitCheckout /\ [][NextCheckout]_vars

-----------------------------------------------------------------------------
(* The scheduler's sweep over bookings created by concurrent requests       *)

NextSweep ==
    \/ \E r \in RequestIds :
        \/ \E items \in ItemLists : Validate(r, items)
        \/ Create(r)
    \/ \E b \in BookingIds : ExpireBooking(b)

SpecSweep == InitCheckout /\ [][NextSweep]_vars


-----------------------------------------------------------------------------
(* The hold of a booking that is never paid, under the expiration sweep     *)

\* Time passes until every booking that could be created is past its hold
Clock ==
    /\ now <= MaxTime + 1 + BookingHoldTime
    /\ now' = now + 1
    /\ Called("tick", 0, "None")
    /\ UNCHANGED <<ticket_types, bookings, payments, tickets, refunds, requests,
                   reservedOk, status_history, discount_codes, waitlist_entries,
                   checkInOk, appliedOk, settlements, ticket_transfers>>

\* The periodic scheduler: expire_booking on a booking with status pending
\* whose booking_expires_at has passed
Sweep(b) ==
    /\ b \in BookingIds
    /\ bookings[b].status = "pending"
    /\ now > bookings[b].booking_expires_at
    /\ ExpireBooking(b)

\* One booking that is never paid: it is confirmed, cancelled or left alone
NextHold ==
    \/ Clock
    \/ \E t \in TicketTypeIds : UpdateSaleStatus(t)
    \/ \E items \in ItemLists : Checkout(items, 1)
    \/ \E b \in BookingIds :
        \/ ConfirmBooking(b)
        \/ CancelBooking(b)
        \/ Sweep(b)

\* Time does not stop and the scheduler does not skip a booking for ever
SpecHold ==
    /\ Init
    /\ [][NextHold]_vars
    /\ WF_vars(Clock)
    /\ \A b \in 1..MaxBookings : WF_vars(Sweep(b))

-----------------------------------------------------------------------------
(* BookingCreateSerializer.create called on data that validate has not      *)
(* passed: a reservation can fail after earlier items were reserved         *)

\* @transaction.atomic: the tables as they were when the call raised, as
\* written when it returned
transaction_atomic_autocommit(before, after, raised) == after
transaction_atomic(before, after, raised) == IF raised THEN before ELSE after

\* The item whose reservation fails first, 0 when every reservation succeeds
FirstFailure(inst, items) ==
    LET F == {i \in Indices(items) : ~reserve_tickets(inst[i], items[i].quantity).ok}
    IN IF F = {} THEN 0 ELSE CHOOSE i \in F : \A j \in F : i <= j

\* The tables as create() has written them when it returns or raises: the
\* booking row is inserted first, then each item is reserved and inserted, up
\* to the item whose reservation fails
create_writes(tts, bks, inst, items, t) ==
    LET c == create(inst, items, t)
        n == FirstFailure(inst, items)
        done == SubSeq(items, 1, n - 1)
    IN IF n = 0
       THEN [ticket_types |-> SaveReserved(tts, items, c.saved),
             bookings |-> Append(bks, c.booking)]
       ELSE [ticket_types |-> SaveReserved(tts, done, c.saved),
             bookings |-> Append(bks, [c.booking EXCEPT
                              !.items = SubSeq(@, 1, n - 1),
                              !.subtotal = 0, !.service_fee_total = 0,
                              !.tax_total = 0, !.total_amount = 0])]

\* serializer.create(validated_data) on freshly loaded ticket types
CreateCall(items, limit) ==
    /\ Len(bookings) < limit
    /\ LET inst == [i \in Indices(items) |-> ticket_types[items[i].ticket_type]]
           n == FirstFailure(inst, items)
           db == transaction_atomic(
                    [ticket_types |-> ticket_types, bookings |-> bookings],
                    create_writes(ticket_types, bookings, inst, items, now),
                    n # 0)
       IN /\ ticket_types' = db.ticket_types
          /\ bookings' = db.bookings
          /\ IF n = 0
             THEN Called("serializer_create", Len(bookings) + 1, "True")
             ELSE Called("serializer_create", n, "ValidationError")
    /\ UNCHANGED <<now, payments, tickets, refunds, requests, reservedOk, status_history,
                   discount_codes, waitlist_entries, checkInOk, appliedOk, settlements, ticket_transfers>>

NextCreate ==
    \/ \E items \in ItemLists : CreateCall(items, 1)
    \/ \E b \in BookingIds : ExpireBooking(b)

SpecCreate == InitLedger /\ [][NextCreate]_vars

-----------------------------------------------------------------------------
(* One payment of a pending booking: failure and retry, completion and      *)
(* settlement, each settlement request on the payment instance it loaded    *)

\* Payment.is_failed and Payment.can_retry
can_retry(p, b) ==
    /\ p.status \in {"failed", "cancelled", "expired"}
    /\ p.retry_count < p.max_retries
    /\ b.status = "pending"

\* Payment.calculate_settlement_amount: 5% commission, no fees, whole units
calculate_settlement_amount(p) == Max(0, p.amount - (p.amount * 5) \div 100)

\* The statuses a payment is given outside these modules (gateway, admin)
GivenStatuses == {"pending", "processing", "cancelled", "expired", "disputed"}

\* A pending booking of one ticket, created at time 0, and its payment
InitPayment ==
    /\ LET items == <<[ticket_type |-> 1, quantity |-> 1]>>
           tts == [t \in TicketTypeIds |->
                     [NewTicketType(MaxQuantity, TicketPrice) EXCEPT
                        !.sale_status = "on_sale"]]
           c == create(<<tts[1]>>, items, 0)
       IN /\ ticket_types = SaveReserved(tts, items, c.saved)
          /\ bookings = <<c.booking>>
          /\ \E st \in GivenStatuses :
                payments = (1 :> [NewPayment(c.booking.total_amount) EXCEPT !.status = st])
    /\ status_history = <<NewStatusHistory(1, "", "pending")>>
    /\ now = 0
    /\ tickets = <<>>
    /\ refunds = <<>>
    /\ lastCall = NoCall
    /\ lastResult = "None"
    /\ requests = [r \in RequestIds |-> Idle]
    /\ reservedOk = [t \in TicketTypeIds |-> 0]
    /\ waitlist_entries = <<>>
    /\ checkInOk = [k \in 1..MaxTickets |-> 0]
    /\ appliedOk = [c \in DiscountCodeIds |-> 0]
    /\ settlements = <<>>
    /\ ticket_transfers = <<>>
    /\ discount_codes = [c \in DiscountCodeIds |-> HalfPrice]

\* Payment.mark_failed
MarkFailed(b) ==
    /\ b \in DOMAIN payments
    /\ IF payments[b].status \in {"pending", "processing"}
       THEN /\ payments' = [payments EXCEPT ![b].status = "failed"]
            /\ Called("mark_failed", b, "True")
       ELSE /\ UNCHANGED payments
            /\ Called("mark_failed", b, "False")
    /\ UNCHANGED <<now, ticket_types, bookings, tickets, refunds, requests, reservedOk,
                   status_history, discount_codes, waitlist_entries, checkInOk, appliedOk,
                   settlements, ticket_transfers>>

\* Payment.retry_payment
RetryPayment(b) ==
    /\ b \in DOMAIN payments
    /\ IF can_retry(payments[b], bookings[b])
       THEN /\ payments' = [payments EXCEPT ![b].status = "pending",
                                            ![b].retry_count = @ + 1]
            /\ Called("retry_payment", b, "True")
       ELSE /\ UNCHANGED payments
            /\ Called("retry_payment", b, "False")
    /\ UNCHANGED <<now, ticket_types, bookings, tickets, refunds, requests, reservedOk,
                   status_history, discount_codes, waitlist_entries, checkInOk, appliedOk,
                   settlements, ticket_transfers>>

\* Payment.objects.get(...): request r reads the payment of booking b, once
LoadPayment(r, b) ==
    /\ requests[r].pc = "idle"
    /\ b \in DOMAIN payments
    /\ requests' = [requests EXCEPT ![r] =
            [pc |-> "loaded", calls |-> @.calls, payment |-> b, instance |-> payments[b]]]
    /\ UNCHANGED <<now, ticket_types, bookings, payments, tickets, refunds,
                   lastCall, lastResult, reservedOk, status_history,
                   discount_codes, waitlist_entries, checkInOk, appliedOk, settlements, ticket_transfers>>

settle_to_organizer_unguarded(p, b) ==
    [ok |-> TRUE,
     payment |-> [p EXCEPT !.is_settled = TRUE],
     settlement |-> [payment |-> b, amount |-> calculate_settlement_amount(p),
                     reference |-> b, status |-> "pending"]]

\* Payment.settle_to_organizer on the loaded instance: the four settlement
\* fields are saved, then the Settlement row is inserted; its reference
\* (unique=True) is derived from the payment's transaction_reference, so a
\* second row for the same payment is refused with IntegrityError
settle_to_organizer(p, b) ==
    IF p.status = "completed" /\ ~p.is_settled
    THEN [ok |-> TRUE,
          payment |-> [p EXCEPT !.is_settled = TRUE],
          settlement |-> [payment |-> b, amount |-> calculate_settlement_amount(p),
                          reference |-> b, status |-> "pending"]]
    ELSE [ok |-> FALSE, payment |-> p, settlement |-> <<>>]

SettleToOrganizer(r) ==
    /\ requests[r].pc = "loaded"
    /\ LET b == requests[r].payment
           res == settle_to_organizer(requests[r].instance, b)
           taken == \E s \in Indices(settlements) :
                        settlements[s].reference = res.settlement.reference
       IN IF res.ok
          THEN /\ payments' = [payments EXCEPT ![b].is_settled = res.payment.is_settled]
               /\ IF taken
                  THEN /\ UNCHANGED settlements
                       /\ Called("settle_to_organizer", b, "IntegrityError")
                  ELSE /\ settlements' = Append(settlements, res.settlement)
                       /\ Called("settle_to_organizer", b, "True")
          ELSE /\ UNCHANGED <<payments, settlements, ticket_transfers>>
               /\ Called("settle_to_organizer", b, "False")
    /\ requests' = [requests EXCEPT ![r] = [pc |-> "done", calls |-> @.calls + 1]]
    /\ UNCHANGED <<now, ticket_types, bookings, tickets, refunds, reservedOk,
                   status_history, discount_codes, waitlist_entries, checkInOk, appliedOk,
                   ticket_transfers>>

NextPayment ==
    \/ \E b \in BookingIds :
        \/ ExpireBooking(b)
        \/ MarkFailed(b)
        \/ RetryPayment(b)
        \/ MarkCompleted(b, "", "")
    \/ \E r \in RequestIds :
        \/ \E b \in BookingIds : LoadPayment(r, b)
        \/ SettleToOrganizer(r)

SpecPayment == InitPayment /\ [][NextPayment]_vars

\* The same payment with the refund of its booking's ticket and settlement
NextRetry ==
    \/ \E b \in BookingIds :
        \/ MarkFailed(b)
        \/ RetryPayment(b)
        \/ MarkCompleted(b, "", "")
        \/ \E i \in Indices(bookings[b].items) :
            TicketsOfItem(b, i) = {} /\ CreateTickets(b, i)
    \/ \E k \in Indices(tickets) : TicketRefund(k, 0)
    \/ \E f \in Indices(refunds) :
        \/ ApproveRefund(f)
        \/ CompleteRefund(f)
    \/ \E r \in RequestIds :
        \/ \E b \in BookingIds : LoadPayment(r, b)
        \/ SettleToOrganizer(r)

SpecRetry == InitPayment /\ [][NextRetry]_vars

-----------------------------------------------------------------------------
(* A user's cancellation and the scheduler's expiry of the same booking,    *)
(* each on the instance it loaded                                           *)

\* Booking.objects.get(...): request r reads booking b to run op on it
LoadBooking(r, b, op) ==
    /\ requests[r].pc = "idle"
    /\ requests' = [requests EXCEPT ![r] =
            [pc |-> "loaded", calls |-> @.calls, op |-> op, booking |-> b,
             instance |-> bookings[b]]]
    /\ UNCHANGED <<now, ticket_types, bookings, payments, tickets, refunds,
                   lastCall, lastResult, reservedOk, status_history,
                   discount_codes, waitlist_entries, checkInOk, appliedOk, settlements, ticket_transfers>>

\* BookingCancelView.post from the loaded instance on:
\* save(update_fields=['status', 'cancelled_at', 'cancellation_reason'])
CancelLoaded(r) ==
    /\ requests[r].pc = "loaded"
    /\ requests[r].op = "cancel_booking"
    /\ LET b == requests[r].booking
           res == cancel_booking(requests[r].instance, now)
       IN /\ bookings' = IF res.ok
                         THEN [bookings EXCEPT ![b].status = res.booking.status,
                                               ![b].cancelled_at = res.booking.cancelled_at]
                         ELSE bookings
          /\ tickets' = IF res.ok
                        THEN [k \in Indices(tickets) |->
                                IF tickets[k].booking = b
                                THEN [tickets[k] EXCEPT !.status = "cancelled"]
                                ELSE tickets[k]]
                        ELSE tickets
          /\ status_history' = IF res.ok
                               THEN Append(status_history,
                                        NewStatusHistory(b, res.booking.status, "cancelled"))
                               ELSE status_history
          /\ Called("cancel_booking", b, Bool(res.ok))
          /\ requests' = [requests EXCEPT ![r] =
                [pc |-> "done", calls |-> @.calls + 1, op |-> @.op, booking |-> b,
                 instance |-> @.instance, result |-> res.ok]]
    /\ UNCHANGED <<now, ticket_types, payments, refunds, reservedOk,
                   discount_codes, waitlist_entries, checkInOk, appliedOk, settlements, ticket_transfers>>

\* expire_booking on the loaded instance: save(update_fields=['status']), then
\* the release of each item on its ticket type
ExpireLoaded(r) ==
    /\ requests[r].pc = "loaded"
    /\ requests[r].op = "expire_booking"
    /\ LET b == requests[r].booking
           res == expire_booking(requests[r].instance)
       IN /\ bookings' = IF res.ok
                         THEN [bookings EXCEPT ![b].status = res.booking.status]
                         ELSE bookings
          /\ ticket_types' = IF res.ok
                             THEN ReleaseItems(ticket_types, requests[r].instance.items,
                                               Len(requests[r].instance.items))
                             ELSE ticket_types
          /\ Called("expire_booking", b, Bool(res.ok))
          /\ requests' = [requests EXCEPT ![r] =
                [pc |-> "done", calls |-> @.calls + 1, op |-> @.op, booking |-> b,
                 instance |-> @.instance, result |-> res.ok]]
    /\ UNCHANGED <<now, payments, tickets, refunds, reservedOk, status_history,
                   discount_codes, waitlist_entries, checkInOk, appliedOk, settlements, ticket_transfers>>

NextRace ==
    \/ \E t \in TicketTypeIds : UpdateSaleStatus(t)
    \/ \E items \in ItemLists : Checkout(items, 1)
    \/ \E r \in RequestIds :
        \/ \E b \in BookingIds, op \in {"cancel_booking", "expire_booking"} :
              LoadBooking(r, b, op)
        \/ CancelLoaded(r)
        \/ ExpireLoaded(r)

SpecRace == Init /\ [][NextRace]_vars

-----------------------------------------------------------------------------
(* The waitlist of a ticket type whose stock is released                    *)

\* WaitlistEntry.objects.create(...) for the next user, at the end of the list
CreateWaitlistEntry(t, quantity_requested) ==
    /\ Len(waitlist_entries) < MaxWaitlist
    /\ waitlist_entries' = Append(waitlist_entries,
            NewWaitlistEntry(t, Len(waitlist_entries) + 1, quantity_requested,
                             Len(waitlist_entries) + 1))
    /\ Called("create_waitlist_entry", t, "True")
    /\ UNCHANGED <<now, ticket_types, bookings, payments, tickets, refunds, requests,
                   reservedOk, status_history, discount_codes, checkInOk, appliedOk, settlements, ticket_transfers>>

\* WaitlistEntry.notify_waitlist(ticket_type, available_quantity)
NotifyWaitlist(t, available_quantity) ==
    /\ waitlist_entries' = notify_waitlist(waitlist_entries, t, available_quantity, now)
    /\ Called("notify_waitlist", t, "None")
    /\ UNCHANGED <<now, ticket_types, bookings, payments, tickets, refunds, requests,
                   reservedOk, status_history, discount_codes, checkInOk, appliedOk, settlements, ticket_transfers>>

NextWaitlist ==
    \/ \E t \in TicketTypeIds :
        \/ UpdateSaleStatus(t)
        \/ \E q \in Quantities :
            \/ CreateWaitlistEntry(t, q)
            \/ NotifyWaitlist(t, q)
    \/ \E items \in ItemLists : Checkout(items, MaxBookings)
    \/ \E b \in BookingIds : ExpireBooking(b)

SpecWaitlist == Init /\ [][NextWaitlist]_vars

-----------------------------------------------------------------------------
(* Claims *)

\* C1: under any interleaving of concurrent reserve_tickets calls on a ticket
\* type, the quantities of the calls that returned success plus sold_count
\* never exceed the ticket type's quantity.
NoOversell ==
    \A t \in TicketTypeIds :
        reservedOk[t] + ticket_types[t].sold_count <= ticket_types[t].quantity

\* C2: two concurrent booking-creation requests that each ask for the one
\* ticket of a ticket type with quantity 1 end with exactly one booking
\* created and the other request rejected.
OneBookingForLastTicket ==
    \A t \in TicketTypeIds :
        (/\ ticket_types[t].quantity = 1
         /\ \A r \in {1, 2} :
              /\ requests[r].pc \in {"created", "rejected"}
              /\ requests[r].items = <<[ticket_type |-> t, quantity |-> 1]>>)
        => Cardinality({r \in {1, 2} : requests[r].pc = "created"}) = 1

\* The quantity of ticket type t held by bookings whose status is paid
PaidQuantity(t) ==
    SumSeq([b \in BookingIds |->
        IF bookings[b].status = "paid"
        THEN SumSeq([i \in Indices(bookings[b].items) |->
                IF bookings[b].items[i].ticket_type = t
                THEN bookings[b].items[i].quantity ELSE 0])
        ELSE 0])

\* C3: the total quantity of a ticket type held by paid bookings never exceeds
\* the ticket type's quantity, whatever the order of creation, confirmation,
\* expiration, cancellation and payment completion.
PaidWithinQuantity ==
    \A t \in TicketTypeIds : PaidQuantity(t) <= ticket_types[t].quantity

\* C4: under any sequence of reserve_tickets, release_reservation and
\* sell_tickets calls, sold_count + reserved_count <= quantity, and after a
\* release reserved_count >= 0.
Conservation ==
    \A t \in TicketTypeIds :
        /\ ticket_types[t].sold_count + ticket_types[t].reserved_count
             <= ticket_types[t].quantity
        /\ (lastCall = [op |-> "release_reservation", id |-> t]
             => ticket_types[t].reserved_count >= 0)

\* A release has just left reserved_count at zero on a ticket type that
\* sell_tickets sold out before.
ConservationWitness ==
    \E t \in TicketTypeIds :
        /\ lastCall = [op |-> "release_reservation", id |-> t]
        /\ ticket_types[t].reserved_count = 0
        /\ ticket_types[t].sold_count = ticket_types[t].quantity
        /\ ticket_types[t].sale_status = "sold_out"

TerminalStatuses == {"cancelled", "expired", "refunded"}

\* C5: once a booking's status is cancelled, expired or refunded, no operation
\* changes that status again.
TerminalStatusStays ==
    [][\A b \in BookingIds :
          bookings[b].status \in TerminalStatuses
          => bookings'[b].status = bookings[b].status]_vars

TransitionOps == {"confirm_booking", "mark_as_paid", "cancel_booking", "expire_booking"}

\* C6: confirm_booking, mark_as_paid, cancel_booking or expire_booking called
\* again right after it succeeded returns failure and leaves the bookings, the
\* tickets and the ticket types' counters as they were.
SecondCallFails ==
    [][\A b \in BookingIds, op \in TransitionOps :
          (/\ lastCall = [op |-> op, id |-> b]
           /\ lastResult = "True"
           /\ lastCall' = [op |-> op, id |-> b])
          => /\ lastResult' = "False"
             /\ UNCHANGED <<bookings, tickets, ticket_types>>]_vars

\* cancel_booking has just failed on a cancelled booking whose tickets it
\* cancelled before.
SecondCallFailsWitness ==
    \E b \in BookingIds :
        /\ lastCall = [op |-> "cancel_booking", id |-> b]
        /\ lastResult = "False"
        /\ bookings[b].status = "cancelled"
        /\ TicketsOf(b) # {}
        /\ \A k \in TicketsOf(b) : tickets[k].status = "cancelled"

\* C7: mark_completed on a payment that is already completed returns failure
\* and changes neither the payment (status, payment_date, gateway fields) nor
\* the booking nor the tickets.
SecondCompletionIsNoOp ==
    [][\A b \in DOMAIN payments :
          (/\ payments[b].status = "completed"
           /\ lastCall' = [op |-> "mark_completed", id |-> b])
          => /\ lastResult' = "False"
             /\ UNCHANGED <<payments, bookings, tickets>>]_vars

\* mark_completed has just failed on a completed payment, at a later time than
\* the payment's date.
SecondCompletionWitness ==
    \E b \in DOMAIN payments :
        /\ lastCall = [op |-> "mark_completed", id |-> b]
        /\ lastResult = "False"
        /\ payments[b].status = "completed"
        /\ payments[b].payment_date < now

\* C8: right after a payment completed and its booking was marked paid, the
\* booking owns exactly quantity tickets for each of its items.
TicketsIssuedOnPayment ==
    \A b \in BookingIds :
        (/\ lastCall = [op |-> "mark_completed", id |-> b]
         /\ lastResult = "True"
         /\ bookings[b].status = "paid")
        => \A i \in Indices(bookings[b].items) :
              Cardinality(TicketsOfItem(b, i)) = bookings[b].items[i].quantity

CompletedRefunds(b) ==
    SumSeq([f \in Indices(refunds) |->
        IF refunds[f].original_payment = b /\ refunds[f].status = "completed"
        THEN refunds[f].refund_amount ELSE 0])

\* C10: for every payment, the refund_amount of its completed refunds sums to
\* no more than the payment's amount.
RefundsWithinAmount ==
    \A b \in DOMAIN payments : CompletedRefunds(b) <= payments[b].amount


\* C11: a ticket that is checked in has status used, whatever operation ran
\* after the check-in.
CheckedInIsUsed ==
    \A k \in Indices(tickets) :
        tickets[k].is_checked_in => tickets[k].status = "used"

\* C12: of all the check_in calls on a ticket, one after the other or
\* interleaved between two scanners, at most one returns success.
CheckedInAtMostOnce ==
    \A k \in Indices(tickets) : checkInOk[k] <= 1

\* C19: Ticket.refund on a ticket whose ticket type is not refundable returns
\* failure and leaves the tickets and the refunds as they were, at any time and
\* in any state of the ticket.
NonRefundableNeverRefunds ==
    [][\A k \in Indices(tickets) :
          (/\ ~ticket_types[tickets[k].ticket_type].is_refundable
           /\ lastCall' = [op |-> "refund", id |-> k])
          => /\ lastResult' = "False"
             /\ UNCHANGED <<tickets, refunds>>]_vars

\* refund has just failed, after the clock moved, on an active ticket of a paid
\* for booking whose ticket type is not refundable.
NonRefundableWitness ==
    \E k \in Indices(tickets) :
        /\ lastCall = [op |-> "refund", id |-> k]
        /\ lastResult = "False"
        /\ ~ticket_types[tickets[k].ticket_type].is_refundable
        /\ tickets[k].status = "active"
        /\ tickets[k].booking \in DOMAIN payments
        /\ now > 0


\* C13: the stored fields of every booking satisfy
\* total_amount = max(0, subtotal - discount_amount) + service_fee_total + tax_total.
StoredTotalsAgree ==
    \A b \in BookingIds :
        bookings[b].total_amount =
            Max(0, bookings[b].subtotal - bookings[b].discount_amount)
              + bookings[b].service_fee_total + bookings[b].tax_total

\* C14: for a discount code with a usage limit, at most that many
\* apply_discount_code calls on distinct bookings succeed, and times_used is the
\* number of calls that succeeded.
UsageWithinLimit ==
    \A c \in DiscountCodeIds :
        discount_codes[c].usage_type = "limited"
        => /\ appliedOk[c] <= discount_codes[c].usage_limit
           /\ discount_codes[c].times_used = appliedOk[c]
           /\ discount_codes[c].times_used <= discount_codes[c].usage_limit


\* C15: calculate_discount(amount) returns no more than amount for a
\* fixed_amount code; for a percentage code with a cap set it returns
\* min(amount * discount_value / 100, max_discount_amount), which is never more
\* than the cap (100000 at 10% with cap 5000 gives 5000).
DiscountWithinBounds ==
    lastCall.op = "calculate_discount"
    => LET dc == discount_codes[lastCall.id]
           amount == lastCall.order_amount
       IN /\ dc.discount_type = "fixed_amount" => lastResult <= amount
          /\ (dc.discount_type = "percentage" /\ dc.max_discount_amount # NoAmount)
             => /\ lastResult = Min((amount * dc.discount_value) \div 100,
                                    dc.max_discount_amount)
                /\ lastResult <= dc.max_discount_amount


\* C16: no step changes the unit_price or the total_price of a booking item
\* that exists, whatever happened to the price of its ticket type.
ItemPriceFixed ==
    [][\A b \in BookingIds : \A i \in Indices(bookings[b].items) :
          /\ bookings'[b].items[i].unit_price = bookings[b].items[i].unit_price
          /\ bookings'[b].items[i].total_price = bookings[b].items[i].total_price]_vars

\* calculate_totals has just run on an item of a booking whose ticket type no
\* longer sells at the item's unit_price.
ItemPriceFixedWitness ==
    \E b \in BookingIds : \E i \in Indices(bookings[b].items) :
        /\ lastCall = [op |-> "item_calculate_totals", id |-> b]
        /\ current_price(ticket_types[bookings[b].items[i].ticket_type], now)
             # bookings[b].items[i].unit_price
        /\ bookings[b].items[i].total_price
             = bookings[b].items[i].unit_price * bookings[b].items[i].quantity


\* C17: expire_booking called on a booking with status pending and
\* payment_status pending sets the status to expired and lowers the
\* reserved_count of each item's ticket type by exactly the item's quantity.
ExpireReleasesExactly ==
    [][\A b \in BookingIds :
          (/\ bookings[b].status = "pending"
           /\ bookings[b].payment_status = "pending"
           /\ lastCall' = [op |-> "expire_booking", id |-> b])
          => /\ bookings'[b].status = "expired"
             /\ \A i \in Indices(bookings[b].items) :
                  LET t == bookings[b].items[i].ticket_type
                  IN ticket_types'[t].reserved_count
                       = ticket_types[t].reserved_count - bookings[b].items[i].quantity]_vars

\* C18: a step that raises a ticket type's available_count from 0 to a positive
\* value leaves every active, un-notified waitlist entry of that ticket type
\* that asks for no more than is now available notified.
WaitlistNotifiedOnRelease ==
    [][\A t \in TicketTypeIds :
          (/\ available_count(ticket_types[t]) = 0
           /\ available_count(ticket_types'[t]) > 0)
          => \A e \in Indices(waitlist_entries) :
                (/\ waitlist_entries[e].ticket_type = t
                 /\ waitlist_entries[e].is_active
                 /\ waitlist_entries[e].notified_at = NoTime
                 /\ waitlist_entries[e].quantity_requested
                      <= available_count(ticket_types'[t]))
                => waitlist_entries'[e].notified_at # NoTime]_vars

\* C20: when a cancellation and an expiry of the same booking have both run,
\* each on a copy loaded while the booking was pending, exactly one of them
\* reported success and the stored status is the one that call wrote.
OneOfCancelAndExpire ==
    \A r1, r2 \in RequestIds :
        (/\ requests[r1].pc = "done" /\ requests[r2].pc = "done"
         /\ requests[r1].op = "cancel_booking" /\ requests[r2].op = "expire_booking"
         /\ requests[r1].booking = requests[r2].booking
         /\ requests[r1].instance.status = "pending"
         /\ requests[r2].instance.status = "pending")
        => /\ requests[r1].result # requests[r2].result
           /\ bookings[requests[r1].booking].status
                = IF requests[r1].result THEN "cancelled" ELSE "expired"

\* C21: a create() call in which the reservation of an item fails raises and
\* leaves the bookings, their items and every ticket type's reserved_count,
\* those of the items reserved earlier in the call included, as they were.
CreateFailureRollsBack ==
    [][(lastCall'.op = "serializer_create" /\ lastResult' = "ValidationError")
       => UNCHANGED <<bookings, ticket_types>>]_vars

\* create() has just raised on its second item, after the first was reserved.
CreateFailureWitness ==
    /\ lastCall = [op |-> "serializer_create", id |-> 2]
    /\ lastResult = "ValidationError"

\* C22: retry_payment returns success exactly when the payment's status is
\* failed, its retry_count is below max_retries and its booking is pending;
\* a call that returns failure leaves the payment as it was.
RetryOnlyFromFailed ==
    [][\A b \in DOMAIN payments :
          lastCall' = [op |-> "retry_payment", id |-> b]
          => /\ lastResult' = "True"
                <=> /\ payments[b].status = "failed"
                    /\ payments[b].retry_count < payments[b].max_retries
                    /\ bookings[b].status = "pending"
             /\ lastResult' = "False" => UNCHANGED payments]_vars

\* C30: a settle_to_organizer call returns success only on a payment that is
\* completed and not yet settled, on the instance it loaded and in the table;
\* no payment ever has more than one Settlement row, however the settle calls
\* interleave; and a payment that is settled stays settled.
SettlementOneWay ==
    [][/\ \A r \in RequestIds :
            (/\ requests[r].pc = "loaded" /\ requests'[r].pc = "done"
             /\ lastResult' = "True")
            => LET b == requests[r].payment
               IN /\ requests[r].instance.status = "completed"
                  /\ ~requests[r].instance.is_settled
                  /\ payments[b].status = "completed"
                  /\ ~payments[b].is_settled
                  /\ payments'[b].is_settled
       /\ \A b \in DOMAIN payments :
            Cardinality({s \in Indices(settlements') : settlements'[s].payment = b}) <= 1
       /\ \A b \in DOMAIN payments : payments[b].is_settled => payments'[b].is_settled]_vars

\* Of two settle calls that both loaded the unsettled payment, the second has
\* just been refused: one Settlement row exists and the payment is settled.
SettlementWitness ==
    /\ lastCall = [op |-> "settle_to_organizer", id |-> 1]
    /\ lastResult = "IntegrityError"
    /\ Len(settlements) = 1
    /\ payments[1].is_settled

\* C23: every ticket belongs to a booking that has been paid (payment_status
\* paid): no tickets are created for an item of a booking that was never paid.
TicketsOnlyForPaid ==
    \A k \in Indices(tickets) : bookings[tickets[k].booking].payment_status = "paid"

\* C24: the latest status-history record of every booking names the booking's
\* current status as its new_status, and every change of a booking's status
\* appends one record with the status before and the status after the change.
HistoryFollowsStatus ==
    [][\A b \in Indices(bookings') :
          LET H == SelectSeq(status_history', LAMBDA h : h.booking = b)
          IN /\ H # <<>>
             /\ H[Len(H)].new_status = bookings'[b].status
             /\ (b \in BookingIds /\ bookings'[b].status # bookings[b].status)
                => /\ Len(status_history') = Len(status_history) + 1
                   /\ H[Len(H)].previous_status = bookings[b].status]_vars

\* C25: every change of a booking's status follows one of the edges
\* pending->confirmed, pending->paid, pending->expired,
\* {pending, confirmed, paid}->cancelled, paid->refunded and
\* paid->partially_refunded; a booking becomes paid only from pending.
StatusFollowsEdges ==
    [][LET StatusEdges ==
             {<<"pending", "confirmed">>, <<"pending", "paid">>,
              <<"pending", "expired">>, <<"pending", "cancelled">>,
              <<"confirmed", "cancelled">>, <<"paid", "cancelled">>,
              <<"paid", "refunded">>, <<"paid", "partially_refunded">>}
       IN \A b \in BookingIds :
            bookings'[b].status # bookings[b].status
            => <<bookings[b].status, bookings'[b].status>> \in StatusEdges]_vars

\* C26: a payment's status changes to refunded or partially_refunded only from
\* completed, and a refund is created only for a payment that is completed.
RefundedOnlyFromCompleted ==
    [][/\ \A b \in DOMAIN payments :
            (/\ payments'[b].status \in {"refunded", "partially_refunded"}
             /\ payments'[b].status # payments[b].status)
            => payments[b].status = "completed"
       /\ Len(refunds') > Len(refunds)
            => LET b == refunds'[Len(refunds')].original_payment
               IN b \in DOMAIN payments /\ payments[b].status = "completed"]_vars

\* C27: cancel_booking returns success exactly when the booking's status is
\* pending, confirmed or paid; after a success every ticket of the booking is
\* cancelled and, when the booking was not paid, each item's ticket type has
\* its reserved_count decreased by the item's quantity.
CancelReleasesUnpaid ==
    [][\A b \in BookingIds :
          lastCall' = [op |-> "cancel_booking", id |-> b]
          => /\ lastResult' = "True"
                <=> bookings[b].status \in {"pending", "confirmed", "paid"}
             /\ lastResult' = "True"
                => /\ \A k \in Indices(tickets') :
                        tickets'[k].booking = b => tickets'[k].status = "cancelled"
                   /\ bookings[b].status # "paid"
                        => \A i \in Indices(bookings[b].items) :
                             LET item == bookings[b].items[i]
                             IN ticket_types'[item.ticket_type].reserved_count
                                  = ticket_types[item.ticket_type].reserved_count
                                    - item.quantity]_vars

\* C28: after mark_completed returns success, the ticket type of each item of
\* the booking has its sold_count increased by the item's quantity and its
\* reserved_count decreased by at most that quantity; and no other step
\* increases a sold_count.
PaymentCommitsReservation ==
    [][/\ \A b \in BookingIds :
            (lastCall' = [op |-> "mark_completed", id |-> b] /\ lastResult' = "True")
            => \A i \in Indices(bookings[b].items) :
                 LET item == bookings[b].items[i]
                     old == ticket_types[item.ticket_type]
                     new == ticket_types'[item.ticket_type]
                 IN /\ new.sold_count = old.sold_count + item.quantity
                    /\ new.reserved_count <= old.reserved_count
                    /\ new.reserved_count >= old.reserved_count - item.quantity
       /\ (\E t \in TicketTypeIds : ticket_types'[t].sold_count > ticket_types[t].sold_count)
            => lastCall'.op = "mark_completed" /\ lastResult' = "True"]_vars

\* C29: when complete_refund returns success, the payment's status is refunded
\* if the refund_amount of its completed refunds sums to the payment's amount,
\* and partially_refunded otherwise.
RefundStatusIsCumulative ==
    \A f \in Indices(refunds) :
        (lastCall = [op |-> "complete_refund", id |-> f] /\ lastResult = "True")
        => LET b == refunds[f].original_payment
           IN payments[b].status = IF CompletedRefunds(b) = payments[b].amount
                                   THEN "refunded" ELSE "partially_refunded"

\* C31: retry_count never exceeds max_retries, and a payment that is failed
\* with retry_count = max_retries keeps that status under every mark_completed,
\* mark_failed, retry_payment, refund and settlement operation.
RetriesExhaustedIsTerminal ==
    [][\A b \in DOMAIN payments :
          /\ payments'[b].retry_count <= payments'[b].max_retries
          /\ (payments[b].status = "failed"
              /\ payments[b].retry_count = payments[b].max_retries)
             => payments'[b].status = "failed"]_vars

TransferCountMatchesRecords ==
    \A k \in Indices(tickets) :
        LET H == SelectSeq(ticket_transfers, LAMBDA x : x.ticket = k)
        IN /\ tickets[k].transfer_count = Len(H)
           /\ H # <<>> => tickets[k].current_holder = H[Len(H)].to_user

\* C34: the sale status that is_available and can_purchase consult is the one
\* derived from the counters and the time: a ticket type is available exactly
\* when it would be with its sale status recomputed, so a ticket type that sold
\* out is purchasable again once reserved stock is released.
SaleStatusIsDerived ==
    \A t \in TicketTypeIds :
        is_available(ticket_types[t], now)
            <=> is_available(update_sale_status(ticket_types[t], now), now)

\* C35: on every booking item that checkout creates, unit_price is the
\* early-bird price while the time is not after early_bird_until and the
\* regular price otherwise, and the per-ticket tax is
\* (unit_price + service_fee) * tax_percentage / 100.
ItemTaxIncludesServiceFee ==
    [][\A b \in Indices(bookings') :
          (lastCall' = [op |-> "create", id |-> b] /\ lastResult' = "True")
          => \A i \in Indices(bookings'[b].items) :
                LET item == bookings'[b].items[i]
                    tt == ticket_types[item.ticket_type]
                IN /\ item.unit_price =
                        IF tt.early_bird_until # NoTime /\ now <= tt.early_bird_until
                        THEN tt.early_bird_price ELSE tt.price
                   /\ item.tax_per_ticket =
                        ((item.unit_price + tt.service_fee) * tt.tax_percentage) \div 100]_vars

\* C39: saving a booking item terminates, also for an item whose unit_price
\* is 0: neither the save that inserts the item at checkout nor a later save
\* ends in RecursionError.
ItemSaveTerminates ==
    [][lastCall'.op \in {"create", "item_save"} => lastResult' # "RecursionError"]_vars

\* C36: the per-user cap of a discount code is enforced: of the
\* apply_discount_code calls of the one user on distinct bookings, at most
\* usage_limit_per_user return success.
UserCapEnforced ==
    \A c \in DiscountCodeIds : appliedOk[c] <= discount_codes[c].usage_limit_per_user

\* C37: reserve, release and commit on one ticket type are serialized: after
\* any interleaving of reserve_tickets, release_reservation and sell_tickets
\* calls, reserved_count and sold_count are those that some sequential order of
\* the calls made so far produces.
LedgerCallsSerialized ==
    \A t \in TicketTypeIds :
        LET made == {r \in RequestIds :
                        requests[r].pc = "done" /\ requests[r].ticket_type = t}
            RECURSIVE Outcomes(_, _)
            Outcomes(S, tt) ==
                IF S = {} THEN {<<tt.reserved_count, tt.sold_count>>}
                ELSE UNION {Outcomes(S \ {r},
                                ledger_call(requests[r].op, tt, requests[r].quantity)) :
                            r \in S}
        IN <<ticket_types[t].reserved_count, ticket_types[t].sold_count>>
               \in Outcomes(made, SerialStart)

\* C40: a ticket is refunded at most once: a Ticket.refund call on a ticket that
\* already has a Refund row fails and creates no further row, so no ticket has
\* more than one Refund row.
TicketRefundedOnce ==
    [][\A k \in Indices(tickets) :
          (lastCall' = [op |-> "refund", id |-> k]
           /\ \E f \in Indices(refunds) : refunds[f].ticket = k)
          => /\ lastResult' = "False"
             /\ refunds' = refunds]_vars

\* C38: a reservation is a time-bounded hold: with the sweep calling
\* expire_booking on every pending booking past booking_expires_at, stock that
\* a never-paid booking reserved is eventually released, whether the booking
\* stayed pending, was confirmed or was cancelled.
HoldIsTimeBounded ==
    \A t \in TicketTypeIds :
        (ticket_types[t].reserved_count > 0) ~> (ticket_types[t].reserved_count = 0)

=========================================================================
